---- MODULE Spec2Model ----
(***************************************************************************)
(* Authentication and session-token core of the BloodCare backend:         *)
(* controllers/authController.js, middleware/auth.js, models/User.js and   *)
(* utils/otp.js.                                                           *)
(*                                                                         *)
(* Every request handler is split at the points where it awaits the        *)
(* credential store: one action is the synchronous code that precedes a    *)
(* store call together with the application of that call.  Several         *)
(* requests are in flight at once, one per slot.                           *)
(*                                                                         *)
(* Time is a discrete clock `now`.  One tick is the resolution of the      *)
(* `iat` claim of a JSON web token; the durations of the program (OTP and  *)
(* reset TTL, lock time, token lifetimes) are rescaled to ticks, their     *)
(* order preserved.                                                        *)
(*                                                                         *)
(* The store is MongoDB behind Mongoose 8: `save` writes the modified      *)
(* paths only; a pushed array element is an atomic $push that increments   *)
(* the version key __v; an array that was assigned is a $set of the whole  *)
(* array, which is conditional on __v being the version that was read and  *)
(* fails with a VersionError otherwise; `updateOne` neither reads nor      *)
(* writes __v and leaves the in-memory document alone.                     *)
(***************************************************************************)
EXTENDS Integers, Sequences, FiniteSets, TLC

(* ------------------------------ bounds -------------------------------- *)

\* last tick of the clock in the session specification
MaxTime == 1

\* last tick of the clock in the lockout and OTP specifications
MaxLockTime == 3

\* number of requests a behaviour of the session specification serves
MaxRequests == 3

\* number of register requests a behaviour of the registration specification serves
MaxRegisters == 3

\* last tick of the clock in the protect specification
MaxProtectTime == 4

\* number of requests a behaviour of the protect specification serves
MaxProtects == 7

\* last tick of the clock in the sessions specification
MaxSessionTime == 2

\* number of requests a behaviour of the sessions specification serves
MaxSessions == 4

\* number of requests a behaviour of the status specification serves
MaxStatusRequests == 3

\* number of requests a behaviour of the password specification serves
MaxPasswordRequests == 4

\* number of requests a behaviour of the password reset specification serves
MaxResets == 5

\* number of requests a behaviour of the verification specification serves
MaxVerifies == 4

\* number of login requests a behaviour of the lockout specification serves
MaxLogins == 7

\* number of calls a behaviour of the OTP specification makes
MaxOtpCalls == 6

(* ------------------------- program constants -------------------------- *)

\* this.loginAttempts + 1 >= 5
LockThreshold == 5

\* Date.now() + 2 * 60 * 60 * 1000, in ticks
LockTime == 2

\* maxAttempts: 3
OtpMaxAttempts == 3

\* expirationMinutes = 10, in ticks
OtpTTL == 1

\* Date.now() + 10 * 60 * 1000, in ticks
ResetTTL == 1

\* JWT_EXPIRE || '7d', in ticks
AccessExpire == 4

\* JWT_REFRESH_EXPIRE || '30d', in ticks
RefreshExpire == 5

\* an unset Date field
NoTime == 0 - 1

\* a number left out of a response
NoCount == 0 - 1

\* an unset passwordResetToken
NoHash == <<"unset", "">>

\* an absent string of a request body
NoStr == "undefined"

\* the request slots (requests in flight at the same time)
Slots == {1, 2}

\* the reset tokens crypto.randomBytes yields, in the order it yields them
ResetTokenSeq == <<"r1", "r2", "r3">>

(* ------------------------------ variables ----------------------------- *)

VARIABLES
  now,         \* Date.now(), in ticks
  users,       \* the User collection: a sequence indexed by _id
  reqs,        \* the requests in flight, by slot
  issued,      \* history: the <<id, iat>> of every token pair signed
  rotated,     \* history: the refresh tokens a RefreshToken call has succeeded with
  revoked,     \* history: the refresh tokens issued before a password change that succeeded
  resetLog,    \* history: the reset tokens generated, those whose email failed, those accepted
  otpLog,      \* history: fresh, the <<identifier, expirationTime>> of the OTPs stored and not
               \* yet presented; spent, the <<identifier, code>> verified since they were stored
  budget,      \* requests (or calls) still to be started
  otpStorage,  \* the otpStorage Map of utils/otp.js
  timers,      \* the pending setTimeout callbacks of storeOTP
  last         \* history: the request or call answered last, and its response

vars == <<now, users, reqs, issued, rotated, revoked, resetLog, otpLog, budget, otpStorage, timers, last>>

(* ------------------------------ helpers ------------------------------- *)

\* schema option lowercase: true of the email path
Lowercase(e) == IF e = "A@x.com" THEN "a@x.com" ELSE e

\* bcrypt.hash(password, salt) in the pre-save hook
Hash(p) == <<"bcrypt", p>>

\* variant: a comparison that accepts every candidate
ComparePasswordAny(candidate, hashed) == TRUE

\* userSchema.methods.comparePassword
ComparePassword(candidate, hashed) == Hash(candidate) = hashed

\* crypto.createHash('sha256').update(token).digest('hex')
Sha256(t) == <<"sha256", t>>

\* jwt.sign(payload, secret, {expiresIn}): a function of id, secret and the tick
SignToken(id, secret, t) == [id |-> id, iat |-> t, secret |-> secret]

NoTok == [id |-> 0, iat |-> 0, secret |-> "none"]

\* generateTokens: both tokens are signed in the same tick
GenerateTokens(id, t) ==
  [accessToken |-> SignToken(id, "access", t), refreshToken |-> SignToken(id, "refresh", t)]

\* jwt.verify(token, process.env.JWT_REFRESH_SECRET)
VerifyRefreshJwt(tok, t) ==
  IF tok.secret # "refresh" THEN "JsonWebTokenError"
  ELSE IF t >= tok.iat + RefreshExpire THEN "TokenExpiredError"
  ELSE "ok"

\* variant: a lock that is in force once lockUntil has passed
IsLockedReversed(doc, t) == doc.lockUntil # NoTime /\ doc.lockUntil < t

\* the virtual isLocked
IsLocked(doc, t) == doc.lockUntil # NoTime /\ doc.lockUntil > t

\* variant: a filter that keeps no token
WithoutAny(seq, t) == <<>>

\* Array.prototype.filter(token => token !== t)
RECURSIVE Without(_, _)
Without(seq, t) ==
  IF seq = <<>> THEN <<>>
  ELSE IF Head(seq) = t THEN Without(Tail(seq), t)
  ELSE <<Head(seq)>> \o Without(Tail(seq), t)

\* Array.prototype.includes
Includes(seq, t) == \E i \in 1..Len(seq) : seq[i] = t

Ids == 1..Len(users)

\* User.findOne({ $or: [{ email }, { phone }] }): the first match in natural order, 0 for null
FindByEmailOrPhone(email, phone) ==
  LET m == {i \in Ids : users[i].email = Lowercase(email) \/ users[i].phone = phone}
  IN IF m = {} THEN 0 ELSE CHOOSE i \in m : \A j \in m : i <= j

\* the defaults of userSchema and the fields of User.create
NewUser(email, phone, password) ==
  [email |-> Lowercase(email), phone |-> phone, password |-> Hash(password),
   refreshTokens |-> <<>>, passwordResetToken |-> NoHash, passwordResetExpires |-> NoTime,
   loginAttempts |-> 0, lockUntil |-> NoTime, lastLogin |-> NoTime, status |-> "active",
   phoneVerified |-> FALSE, emailVerified |-> FALSE, isVerified |-> FALSE, v |-> 0]

NoDoc == [none |-> TRUE]

NoRes == [status |-> 0, message |-> "", refreshToken |-> NoTok, data |-> NoDoc]

\* a response with no data
Res(status, message) == [status |-> status, message |-> message, refreshToken |-> NoTok, data |-> NoDoc]

\* a response whose data holds a token pair
ResTok(status, message, tok) ==
  [status |-> status, message |-> message, refreshToken |-> tok, data |-> NoDoc]

\* a response whose data holds a token pair and a user, or the verification flags
ResData(status, message, tok, data) ==
  [status |-> status, message |-> message, refreshToken |-> tok, data |-> data]

\* the user of a response body: the fields of the document that are not undefined, of which
\* the model keeps the identifying and the sensitive ones
UserJson(doc, removed) ==
  [f \in {"email", "phone", "password", "refreshTokens"} \ removed |-> doc[f]]

\* history kept with a request: no other request was in flight with it; the lockUntil stored
\* when it read the user; its refresh token had been rotated out when it began; its refresh
\* token was rotated out by another request while it was in flight; its refresh token had been
\* issued before a password change that had succeeded when it began; its reset token was
\* one whose email had failed when it began
NoG == [solo |-> TRUE, seen |-> NoTime, late |-> FALSE, raced |-> FALSE, revoked |-> FALSE,
        undelivered |-> FALSE]

Idle == [op |-> "none", pc |-> "idle", arg |-> <<>>, uid |-> 0, doc |-> NoDoc, res |-> NoRes, g |-> NoG]

NoLast == [op |-> "none", uid |-> 0, res |-> NoRes, g |-> NoG]

\* the slot is free
Free(s) == reqs[s].pc = "idle"

\* a new request takes the first free slot
CanStart(s) == Free(s) /\ budget > 0 /\ \A r \in Slots : r < s => ~Free(r)

\* the response of the request in slot s
Done(s, res) == [reqs[s] EXCEPT !.pc = "done", !.res = res]

Answered(r) == [op |-> r.op, uid |-> r.uid, res |-> r.res, g |-> r.g]

\* the request in slot s goes on as r, or is answered and leaves its slot
Commit(s, r) ==
  IF r.pc = "done"
  THEN reqs' = [reqs EXCEPT ![s] = Idle] /\ last' = Answered(r)
  ELSE reqs' = [reqs EXCEPT ![s] = r] /\ last' = last

\* request r begins in slot s, next to the requests in flight
Begin(s, r) ==
  LET alone == \A x \in Slots \ {s} : reqs[x].pc = "idle"
      rr == [r EXCEPT !.g.solo = alone]
  IN /\ reqs' = [x \in Slots |->
                  IF x = s THEN (IF rr.pc = "done" THEN Idle ELSE rr)
                  ELSE IF reqs[x].pc = "idle" THEN reqs[x]
                  ELSE [reqs[x] EXCEPT !.g.solo = FALSE]]
     /\ last' = IF rr.pc = "done" THEN Answered(rr) ELSE last

(* --------------------------- Mongoose writes -------------------------- *)

\* document.save() after refreshTokens.push(tok): $push, $inc __v, $set of the other modified paths
SavePush(id, tok, sets) ==
  [f \in DOMAIN users[id] |->
     IF f = "refreshTokens" THEN Append(users[id].refreshTokens, tok)
     ELSE IF f = "v" THEN users[id].v + 1
     ELSE IF f \in DOMAIN sets THEN sets[f]
     ELSE users[id][f]]

\* the where clause of a save that $sets an array: __v is the version read
\* variant: a save that does not compare the version read with the version stored
VersionIgnored(id, doc) == TRUE

VersionMatches(id, doc) == users[id].v = doc.v

\* document.save() after an assignment to refreshTokens: $set of the array, $inc __v
SaveArray(id, tokens, sets) ==
  [f \in DOMAIN users[id] |->
     IF f = "refreshTokens" THEN tokens
     ELSE IF f = "v" THEN users[id].v + 1
     ELSE IF f \in DOMAIN sets THEN sets[f]
     ELSE users[id][f]]

\* document.save() with no array modified: $set / $unset of the modified paths
SaveSet(id, sets) ==
  [f \in DOMAIN users[id] |-> IF f \in DOMAIN sets THEN sets[f] ELSE users[id][f]]

(* ------------------------------- clock -------------------------------- *)

Tick(limit) ==
  /\ now < limit
  /\ now' = now + 1
  /\ UNCHANGED <<users, reqs, issued, rotated, revoked, resetLog, otpLog, budget, otpStorage, timers, last>>

(* ------------------------------ Register ------------------------------ *)

\* register: the existence check (User.findOne)
RegisterFind(s, email, phone, password) ==
  /\ CanStart(s)
  /\ budget' = budget - 1
  /\ LET r == [op |-> "register", pc |-> "create",
               arg |-> [email |-> email, phone |-> phone, password |-> password],
               uid |-> 0, doc |-> NoDoc, res |-> NoRes, g |-> NoG]
     IN Begin(s,
                   IF FindByEmailOrPhone(email, phone) # 0
                   THEN [r EXCEPT !.pc = "done",
                                  !.res = Res(400, "User already exists with this email or phone")]
                   ELSE r)
  /\ UNCHANGED <<now, users, issued, rotated, revoked, resetLog, otpLog, otpStorage, timers>>

\* variant: a unique index on the email path only
DuplicateKeyEmailOnly(email, phone) ==
  IF \E i \in Ids : users[i].email = Lowercase(email)
  THEN "This email address is already registered. Please use a different email."
  ELSE "none"

\* the unique indexes of the email and phone paths; handleDuplicateFieldsDB (NODE_ENV=production)
DuplicateKey(email, phone) ==
  IF \E i \in Ids : users[i].email = Lowercase(email)
  THEN "This email address is already registered. Please use a different email."
  ELSE IF \E i \in Ids : users[i].phone = phone
  THEN "This phone number is already registered. Please use a different phone number."
  ELSE "none"

\* register: User.create
RegisterCreate(s) ==
  /\ reqs[s].op = "register" /\ reqs[s].pc = "create"
  /\ LET a == reqs[s].arg
         dup == DuplicateKey(a.email, a.phone)
         u == NewUser(a.email, a.phone, a.password)
     IN IF dup # "none"
        THEN /\ users' = users
             /\ Commit(s, Done(s, Res(400, dup)))
        ELSE /\ users' = Append(users, u)
             /\ Commit(s, [reqs[s] EXCEPT !.pc = "save", !.uid = Len(users) + 1, !.doc = u])
  /\ UNCHANGED <<now, issued, rotated, revoked, resetLog, otpLog, budget, otpStorage, timers>>

\* register: generateTokens, refreshTokens.push, user.save, generateOTP (logged, not stored)
RegisterSave(s) ==
  /\ reqs[s].op = "register" /\ reqs[s].pc = "save"
  /\ LET id == reqs[s].uid
         t == GenerateTokens(id, now)
     IN /\ users' = [users EXCEPT ![id] = SavePush(id, t.refreshToken, <<>>)]
        /\ issued' = issued \cup {<<id, now>>}
        /\ Commit(s,
                      Done(s, ResData(201, "User registered successfully. Please verify your phone number.",
                                      t.refreshToken,
                                      UserJson([reqs[s].doc EXCEPT !.refreshTokens = Append(@, t.refreshToken)],
                                               {"password"}))))
  /\ UNCHANGED <<now, rotated, revoked, resetLog, otpLog, budget, otpStorage, timers>>

(* -------------------------------- Login ------------------------------- *)

\* login: User.findOne(...).select('+password +refreshTokens')
LoginFind(s, email, phone, password) ==
  /\ CanStart(s)
  /\ budget' = budget - 1
  /\ LET m == FindByEmailOrPhone(email, phone)
     IN Begin(s,
                   [op |-> "login", pc |-> "check",
                    arg |-> [email |-> email, phone |-> phone, password |-> password],
                    uid |-> m, doc |-> IF m = 0 THEN NoDoc ELSE users[m], res |-> NoRes,
                    g |-> [NoG EXCEPT !.seen = IF m = 0 THEN NoTime ELSE users[m].lockUntil]])
  /\ UNCHANGED <<now, users, issued, rotated, revoked, resetLog, otpLog, otpStorage, timers>>

\* variant: the lock is set when the count after the increment exceeds the threshold
IncLoginAttemptsLate(doc, stored, t) ==
  IF doc.lockUntil # NoTime /\ doc.lockUntil < t
  THEN [stored EXCEPT !.lockUntil = NoTime, !.loginAttempts = 0]
  ELSE IF doc.loginAttempts + 1 > LockThreshold /\ ~IsLocked(doc, t)
  THEN [stored EXCEPT !.loginAttempts = @ + 1, !.lockUntil = t + LockTime]
  ELSE [stored EXCEPT !.loginAttempts = @ + 1]

\* userSchema.methods.incLoginAttempts: the update sent by this.updateOne, applied to the stored user
IncLoginAttempts(doc, stored, t) ==
  IF doc.lockUntil # NoTime /\ doc.lockUntil < t
  THEN [stored EXCEPT !.lockUntil = NoTime, !.loginAttempts = 0]
  ELSE IF doc.loginAttempts + 1 >= LockThreshold /\ ~IsLocked(doc, t)
  THEN [stored EXCEPT !.loginAttempts = @ + 1, !.lockUntil = t + LockTime]
  ELSE [stored EXCEPT !.loginAttempts = @ + 1]

\* userSchema.methods.resetLoginAttempts
ResetLoginAttempts(stored) == [stored EXCEPT !.loginAttempts = 0, !.lockUntil = NoTime]

\* variant: a save that writes every path of the document read, the counter and lock included
LoginIssueStale(s) ==
  LET id == reqs[s].uid
      t == GenerateTokens(id, now)
      doc == reqs[s].doc
  IN /\ users' = [users EXCEPT ![id] =
                    SavePush(id, t.refreshToken,
                             [lastLogin |-> now, loginAttempts |-> doc.loginAttempts,
                              lockUntil |-> doc.lockUntil])]
     /\ issued' = issued \cup {<<id, now>>}
     /\ Commit(s, Done(s, ResData(200, "Login successful", t.refreshToken,
                                   UserJson(reqs[s].doc, {"password", "refreshTokens"}))))

\* variant: a response that tells an unknown account from a wrong password
LoginFailureTelling(found) ==
  IF found THEN Res(401, "Invalid credentials") ELSE Res(404, "User not found")

\* the response of login when no user is found (found = FALSE) or the password is wrong
LoginFailure(found) == Res(401, "Invalid credentials")

\* login: generateTokens, refreshTokens.push, lastLogin, user.save
LoginIssue(s) ==
  LET id == reqs[s].uid
      t == GenerateTokens(id, now)
  IN /\ users' = [users EXCEPT ![id] = SavePush(id, t.refreshToken, [lastLogin |-> now])]
     /\ issued' = issued \cup {<<id, now>>}
     /\ Commit(s, Done(s, ResData(200, "Login successful", t.refreshToken,
                                   UserJson(reqs[s].doc, {"password", "refreshTokens"}))))

\* login: comparePassword and the checks that follow it, up to the next store call
LoginCheck(s) ==
  /\ reqs[s].op = "login" /\ reqs[s].pc = "check"
  /\ LET id == reqs[s].uid
         doc == reqs[s].doc
     IN IF id = 0
        THEN /\ Commit(s, Done(s, LoginFailure(FALSE)))
             /\ UNCHANGED <<users, issued>>
        ELSE IF ~ComparePassword(reqs[s].arg.password, doc.password)
        THEN /\ users' = [users EXCEPT ![id] = IncLoginAttempts(doc, users[id], now)]
             /\ Commit(s, Done(s, LoginFailure(TRUE)))
             /\ UNCHANGED issued
        ELSE IF IsLocked(doc, now)
        THEN /\ Commit(s,
                           Done(s, Res(423, "Account temporarily locked due to multiple failed login attempts")))
             /\ UNCHANGED <<users, issued>>
        ELSE IF doc.status # "active"
        THEN /\ Commit(s,
                           Done(s, Res(401, "Account has been suspended. Please contact support.")))
             /\ UNCHANGED <<users, issued>>
        ELSE IF doc.loginAttempts # 0
        THEN /\ users' = [users EXCEPT ![id] = ResetLoginAttempts(users[id])]
             /\ Commit(s, [reqs[s] EXCEPT !.pc = "save"])
             /\ UNCHANGED issued
        ELSE LoginIssue(s)
  /\ UNCHANGED <<now, rotated, revoked, resetLog, otpLog, budget, otpStorage, timers>>

\* login: the save that follows resetLoginAttempts
LoginSave(s) ==
  /\ reqs[s].op = "login" /\ reqs[s].pc = "save"
  /\ LoginIssue(s)
  /\ UNCHANGED <<now, rotated, revoked, resetLog, otpLog, budget, otpStorage, timers>>

(* ---------------------------- RefreshToken ---------------------------- *)

\* refreshToken: jwt.verify and User.findById(decoded.id)
RefreshFind(s, tok) ==
  /\ CanStart(s)
  /\ budget' = budget - 1
  /\ LET r == [op |-> "refresh", pc |-> "rotate",
               arg |-> [token |-> tok],
               uid |-> 0, doc |-> NoDoc, res |-> NoRes, g |-> [NoG EXCEPT !.late = tok \in rotated,
                                 !.revoked = tok.secret = "refresh" /\ <<tok.id, tok.iat>> \in revoked]]
     IN Begin(s,
                   IF tok = NoTok
                   THEN [r EXCEPT !.pc = "done", !.res = Res(401, "Refresh token is required")]
                   ELSE IF VerifyRefreshJwt(tok, now) # "ok"
                   THEN [r EXCEPT !.pc = "done", !.res = Res(401, "Invalid refresh token")]
                   ELSE IF tok.id \in Ids
                   THEN [r EXCEPT !.uid = tok.id, !.doc = users[tok.id]]
                   ELSE r)
  /\ UNCHANGED <<now, users, issued, rotated, revoked, resetLog, otpLog, otpStorage, timers>>

\* refreshToken: the membership check, generateTokens, filter, push and user.save;
\* a VersionError of the save is caught and answered as an invalid token
RefreshRotate(s) ==
  /\ reqs[s].op = "refresh" /\ reqs[s].pc = "rotate"
  /\ LET id == reqs[s].uid
         doc == reqs[s].doc
         tok == reqs[s].arg.token
         t == GenerateTokens(id, now)
         me == [reqs[s] EXCEPT !.g.raced = (tok \in rotated) /\ ~reqs[s].g.late]
     IN IF id = 0 \/ ~Includes(doc.refreshTokens, tok)
        THEN /\ Commit(s, [me EXCEPT !.pc = "done", !.res = Res(401, "Invalid refresh token")])
             /\ UNCHANGED <<users, issued, rotated>>
        ELSE IF ~VersionMatches(id, doc)
        THEN /\ Commit(s, [me EXCEPT !.pc = "done", !.res = Res(401, "Invalid refresh token")])
             /\ UNCHANGED <<users, issued, rotated>>
        ELSE /\ users' = [users EXCEPT ![id] =
                            SaveArray(id, Append(Without(doc.refreshTokens, tok), t.refreshToken), <<>>)]
             /\ issued' = issued \cup {<<id, now>>}
             /\ rotated' = rotated \cup {tok}
             /\ Commit(s, [me EXCEPT !.pc = "done",
                                     !.res = ResTok(200, "Token refreshed successfully", t.refreshToken)])
  /\ UNCHANGED <<now, revoked, resetLog, otpLog, budget, otpStorage, timers>>

(* ------------------------------ protect ------------------------------- *)

\* jwt.verify(token, process.env.JWT_SECRET)
VerifyAccessJwt(tok, t) ==
  IF tok.secret # "access" THEN "JsonWebTokenError"
  ELSE IF t >= tok.iat + AccessExpire THEN "TokenExpiredError"
  ELSE "ok"

\* protect: the bearer token and jwt.verify; the request of handler op begins
Protect(s, op, tok, arg) ==
  LET r == [op |-> op, pc |-> "verified", arg |-> arg, uid |-> 0, doc |-> NoDoc, res |-> NoRes, g |-> NoG]
      j == VerifyAccessJwt(tok, now)
  IN IF tok = NoTok
     THEN [r EXCEPT !.pc = "done", !.res = Res(401, "Access denied. No token provided.")]
     ELSE IF j = "JsonWebTokenError"
     THEN [r EXCEPT !.pc = "done", !.res = Res(401, "Invalid token.")]
     ELSE IF j = "TokenExpiredError"
     THEN [r EXCEPT !.pc = "done", !.res = Res(401, "Token expired.")]
     ELSE [r EXCEPT !.uid = tok.id]

\* variant: a gate that does not look at the lock
ProtectGateNoLock(doc, t) ==
  IF doc.status # "active"
  THEN Res(401, "Your account has been suspended. Please contact support.")
  ELSE NoRes

\* protect: the checks of the user found, before next()
ProtectGate(doc, t) ==
  IF doc.status # "active"
  THEN Res(401, "Your account has been suspended. Please contact support.")
  ELSE IF IsLocked(doc, t)
  THEN Res(423, "Account temporarily locked due to multiple failed login attempts.")
  ELSE NoRes

\* protect: User.findById(decoded.id), the checks of the user found, req.user and next()
ProtectFind(s) ==
  /\ reqs[s].pc = "verified"
  /\ LET id == reqs[s].uid
     IN Commit(s,
                   IF id \notin Ids
                   THEN Done(s, Res(401, "The user belonging to this token no longer exists."))
                   ELSE IF ProtectGate(users[id], now) # NoRes
                   THEN Done(s, ProtectGate(users[id], now))
                   ELSE [reqs[s] EXCEPT !.pc = "protected", !.doc = users[id]])
  /\ UNCHANGED <<now, users, issued, rotated, revoked, resetLog, otpLog, budget, otpStorage, timers>>

(* ------------------------------- Logout ------------------------------- *)

\* protect in front of logout
LogoutProtect(s, tok, refreshToken) ==
  /\ CanStart(s)
  /\ budget' = budget - 1
  /\ Begin(s, Protect(s, "logout", tok, [token |-> refreshToken]))
  /\ UNCHANGED <<now, users, issued, rotated, revoked, resetLog, otpLog, otpStorage, timers>>

\* logout: req.user.refreshTokens = filter(...) and req.user.save() when a token is given;
\* the save writes nothing when the filter removed nothing, and is versioned otherwise
Logout(s) ==
  /\ reqs[s].op = "logout" /\ reqs[s].pc = "protected"
  /\ LET id == reqs[s].uid
         doc == reqs[s].doc
         tok == reqs[s].arg.token
     IN IF tok = NoTok \/ ~Includes(doc.refreshTokens, tok)
        THEN /\ users' = users
             /\ Commit(s, Done(s, Res(200, "Logged out successfully")))
        ELSE IF VersionMatches(id, doc)
        THEN /\ users' = [users EXCEPT ![id] = SaveArray(id, Without(doc.refreshTokens, tok), <<>>)]
             /\ Commit(s, Done(s, Res(200, "Logged out successfully")))
        ELSE /\ users' = users
             /\ Commit(s, Done(s, Res(500, "Something went wrong!")))
  /\ UNCHANGED <<now, issued, rotated, revoked, resetLog, otpLog, budget, otpStorage, timers>>

(* --------------------------- ChangePassword --------------------------- *)

\* protect in front of changePassword
ChangePasswordProtect(s, tok, currentPassword, newPassword) ==
  /\ CanStart(s)
  /\ budget' = budget - 1
  /\ Begin(s,
                Protect(s, "changePassword", tok,
                        [currentPassword |-> currentPassword, newPassword |-> newPassword]))
  /\ UNCHANGED <<now, users, issued, rotated, revoked, resetLog, otpLog, otpStorage, timers>>

\* changePassword: User.findById(req.user.id).select('+password')
ChangePasswordFind(s) ==
  /\ reqs[s].op = "changePassword" /\ reqs[s].pc = "protected"
  /\ Commit(s, [reqs[s] EXCEPT !.pc = "save", !.doc = users[reqs[s].uid]])
  /\ UNCHANGED <<now, users, issued, rotated, revoked, resetLog, otpLog, budget, otpStorage, timers>>

\* user.save() of a document whose password was set and whose refreshTokens was assigned []:
\* the array is modified, and the save versioned, when it was not empty already
SavePassword(s, sets) ==
  LET id == reqs[s].uid
      doc == reqs[s].doc
  IN IF doc.refreshTokens = <<>>
     THEN /\ users' = [users EXCEPT ![id] = SaveSet(id, sets)]
          /\ Commit(s, [reqs[s] EXCEPT !.pc = "issue"])
     ELSE IF VersionMatches(id, doc)
     THEN /\ users' = [users EXCEPT ![id] = SaveArray(id, <<>>, sets)]
          /\ Commit(s, [reqs[s] EXCEPT !.pc = "issue"])
     ELSE /\ users' = users
          /\ Commit(s, Done(s, Res(500, "Something went wrong!")))

\* changePassword: comparePassword, the new password, refreshTokens = [], user.save()
ChangePasswordSave(s) ==
  /\ reqs[s].op = "changePassword" /\ reqs[s].pc = "save"
  /\ IF ~ComparePassword(reqs[s].arg.currentPassword, reqs[s].doc.password)
     THEN /\ Commit(s, Done(s, Res(400, "Current password is incorrect")))
          /\ users' = users
     ELSE SavePassword(s, [password |-> Hash(reqs[s].arg.newPassword)])
  /\ UNCHANGED <<now, issued, rotated, revoked, resetLog, otpLog, budget, otpStorage, timers>>

\* generateTokens, refreshTokens.push and the second save of changePassword and resetPassword
IssueAfterPassword(s, message) ==
  LET id == reqs[s].uid
      t == GenerateTokens(id, now)
  IN /\ users' = [users EXCEPT ![id] = SavePush(id, t.refreshToken, <<>>)]
     /\ revoked' = revoked \cup {p \in issued : p[1] = id}
     /\ issued' = issued \cup {<<id, now>>}
     /\ Commit(s, Done(s, ResTok(200, message, t.refreshToken)))

\* changePassword: the new token pair
ChangePasswordIssue(s) ==
  /\ reqs[s].op = "changePassword" /\ reqs[s].pc = "issue"
  /\ IssueAfterPassword(s, "Password changed successfully")
  /\ UNCHANGED <<now, rotated, resetLog, otpLog, budget, otpStorage, timers>>

(* --------------------- ForgotPassword, ResetPassword ------------------ *)

\* User.findOne({ email })
FindByEmail(email) ==
  LET m == {i \in Ids : users[i].email = Lowercase(email)}
  IN IF m = {} THEN 0 ELSE CHOOSE i \in m : \A j \in m : i <= j

\* forgotPassword: User.findOne({ email })
ForgotPasswordFind(s, email) ==
  /\ CanStart(s)
  /\ budget' = budget - 1
  /\ LET m == FindByEmail(email)
         r == [op |-> "forgotPassword", pc |-> "save", arg |-> [email |-> email, resetToken |-> NoStr],
               uid |-> m, doc |-> IF m = 0 THEN NoDoc ELSE users[m], res |-> NoRes, g |-> NoG]
     IN Begin(s,
                   IF m = 0
                   THEN [r EXCEPT !.pc = "done", !.res = Res(404, "No user found with this email address")]
                   ELSE r)
  /\ UNCHANGED <<now, users, issued, rotated, revoked, resetLog, otpLog, otpStorage, timers>>

\* crypto.randomBytes(32).toString('hex'): a token no earlier call generated
FreshResetToken(resetToken) ==
  /\ Cardinality(resetLog.made) < Len(ResetTokenSeq)
  /\ resetToken = ResetTokenSeq[Cardinality(resetLog.made) + 1]

\* forgotPassword: crypto.randomBytes, the hash and the expiry of the reset token, user.save
ForgotPasswordSave(s, resetToken) ==
  /\ reqs[s].op = "forgotPassword" /\ reqs[s].pc = "save"
  /\ FreshResetToken(resetToken)
  /\ resetLog' = [resetLog EXCEPT !.made = @ \cup {resetToken}]
  /\ users' = [users EXCEPT ![reqs[s].uid] =
                 SaveSet(reqs[s].uid, [passwordResetToken |-> Sha256(resetToken),
                                       passwordResetExpires |-> now + ResetTTL])]
  /\ Commit(s, [reqs[s] EXCEPT !.pc = "send", !.arg.resetToken = resetToken])
  /\ UNCHANGED <<now, issued, rotated, revoked, otpLog, budget, otpStorage, timers>>

\* forgotPassword: sendEmail resolves
ForgotPasswordSent(s) ==
  /\ reqs[s].op = "forgotPassword" /\ reqs[s].pc = "send"
  /\ Commit(s, Done(s, Res(200, "Password reset email sent successfully")))
  /\ UNCHANGED <<now, users, issued, rotated, revoked, resetLog, otpLog, budget, otpStorage, timers>>

\* variant: sendEmail throws and the reset fields are left as saved
ForgotPasswordSendFailedNoRollback(s) ==
  /\ reqs[s].op = "forgotPassword" /\ reqs[s].pc = "send"
  /\ users' = users
  /\ resetLog' = [resetLog EXCEPT !.failed = @ \cup {reqs[s].arg.resetToken}]
  /\ Commit(s,
                Done(s, Res(500, "There was an error sending the email. Try again later.")))
  /\ UNCHANGED <<now, issued, rotated, revoked, otpLog, budget, otpStorage, timers>>

\* forgotPassword: sendEmail throws; the reset fields are cleared and saved
ForgotPasswordSendFailed(s) ==
  /\ reqs[s].op = "forgotPassword" /\ reqs[s].pc = "send"
  /\ users' = [users EXCEPT ![reqs[s].uid] =
                 SaveSet(reqs[s].uid, [passwordResetToken |-> NoHash, passwordResetExpires |-> NoTime])]
  /\ resetLog' = [resetLog EXCEPT !.failed = @ \cup {reqs[s].arg.resetToken}]
  /\ Commit(s,
                Done(s, Res(500, "There was an error sending the email. Try again later.")))
  /\ UNCHANGED <<now, issued, rotated, revoked, otpLog, budget, otpStorage, timers>>

\* User.findOne({ passwordResetToken: hashedToken, passwordResetExpires: { $gt: Date.now() } })
FindByResetToken(hashedToken, t) ==
  LET m == {i \in Ids : users[i].passwordResetToken = hashedToken /\ users[i].passwordResetExpires > t}
  IN IF m = {} THEN 0 ELSE CHOOSE i \in m : \A j \in m : i <= j

\* resetPassword: the confirmation check and the lookup by the hashed token
ResetPasswordFind(s, token, password, confirmPassword) ==
  /\ CanStart(s)
  /\ budget' = budget - 1
  /\ LET m == FindByResetToken(Sha256(token), now)
         r == [op |-> "resetPassword", pc |-> "save",
               arg |-> [token |-> token, password |-> password, confirmPassword |-> confirmPassword],
               uid |-> m, doc |-> IF m = 0 THEN NoDoc ELSE users[m], res |-> NoRes,
               g |-> [NoG EXCEPT !.undelivered = token \in resetLog.failed]]
     IN Begin(s,
                   IF password # confirmPassword
                   THEN [r EXCEPT !.pc = "done", !.uid = 0, !.doc = NoDoc,
                                  !.res = Res(400, "Passwords do not match")]
                   ELSE IF m = 0
                   THEN [r EXCEPT !.pc = "done", !.res = Res(400, "Token is invalid or has expired")]
                   ELSE r)
  /\ UNCHANGED <<now, users, issued, rotated, revoked, resetLog, otpLog, otpStorage, timers>>

\* variant: the save clears the reset hash and leaves passwordResetExpires
ResetPasswordSaveKeepsExpiry(s) ==
  /\ reqs[s].op = "resetPassword" /\ reqs[s].pc = "save"
  /\ SavePassword(s, [password |-> Hash(reqs[s].arg.password), passwordResetToken |-> NoHash])
  /\ resetLog' = IF reqs'[s].pc = "issue"
                  THEN [resetLog EXCEPT !.used = @ \cup {reqs[s].arg.token}]
                  ELSE resetLog
  /\ UNCHANGED <<now, issued, rotated, revoked, otpLog, budget, otpStorage, timers>>

\* resetPassword: the new password, the reset fields cleared, refreshTokens = [], user.save()
ResetPasswordSave(s) ==
  /\ reqs[s].op = "resetPassword" /\ reqs[s].pc = "save"
  /\ SavePassword(s, [password |-> Hash(reqs[s].arg.password),
                      passwordResetToken |-> NoHash, passwordResetExpires |-> NoTime])
  /\ resetLog' = IF reqs'[s].pc = "issue"
                  THEN [resetLog EXCEPT !.used = @ \cup {reqs[s].arg.token}]
                  ELSE resetLog
  /\ UNCHANGED <<now, issued, rotated, revoked, otpLog, budget, otpStorage, timers>>

\* resetPassword: the new token pair
ResetPasswordIssue(s) ==
  /\ reqs[s].op = "resetPassword" /\ reqs[s].pc = "issue"
  /\ IssueAfterPassword(s, "Password reset successful")
  /\ UNCHANGED <<now, rotated, resetLog, otpLog, budget, otpStorage, timers>>

(* --------------------------- account status --------------------------- *)

\* the status path of userSchema: the auth controller only reads it; an administrator sets
\* it in the store
SetStatus(id, status) ==
  /\ id \in Ids
  /\ users[id].status # status
  /\ users' = [users EXCEPT ![id] = SaveSet(id, [status |-> status])]
  /\ UNCHANGED <<now, reqs, issued, rotated, revoked, resetLog, otpLog, budget, otpStorage, timers, last>>

(* ------------------------------ VerifyOTP ----------------------------- *)

\* an absent otp of a request body
NoOtp == <<>>

\* User.findOne({ phone })
FindByPhone(phone) ==
  LET m == {i \in Ids : users[i].phone = phone}
  IN IF m = {} THEN 0 ELSE CHOOSE i \in m : \A j \in m : i <= j

\* verifyOTP of the controller: the format check and User.findOne({ phone })
VerifyOtpFind(s, phone, otp, type) ==
  /\ CanStart(s)
  /\ budget' = budget - 1
  /\ LET m == FindByPhone(phone)
         r == [op |-> "verifyOTP", pc |-> "save", arg |-> [phone |-> phone, otp |-> otp, type |-> type],
               uid |-> m, doc |-> IF m = 0 THEN NoDoc ELSE users[m], res |-> NoRes, g |-> NoG]
     IN Begin(s,
                   IF otp = NoOtp \/ Len(otp) # 6
                   THEN [r EXCEPT !.pc = "done", !.uid = 0, !.doc = NoDoc,
                                  !.res = Res(400, "Invalid OTP format")]
                   ELSE IF m = 0
                   THEN [r EXCEPT !.pc = "done", !.res = Res(404, "User not found")]
                   ELSE r)
  /\ UNCHANGED <<now, users, issued, rotated, revoked, resetLog, otpLog, otpStorage, timers>>

\* verifyOTP of the controller: the flags set on the user found
VerifiedDoc(doc, type) ==
  LET phoneVerified == IF type = "phone" THEN TRUE ELSE doc.phoneVerified
  IN [doc EXCEPT !.phoneVerified = phoneVerified,
                 !.isVerified = IF phoneVerified /\ doc.emailVerified THEN TRUE ELSE @]

\* verifyOTP of the controller: the flags, user.save() of the flags that changed, the response
VerifyOtpSave(s) ==
  /\ reqs[s].op = "verifyOTP" /\ reqs[s].pc = "save"
  /\ LET id == reqs[s].uid
         doc == reqs[s].doc
         set == VerifiedDoc(doc, reqs[s].arg.type)
         modified == {f \in {"phoneVerified", "isVerified"} : set[f] # doc[f]}
     IN /\ users' = [users EXCEPT ![id] = SaveSet(id, [f \in modified |-> set[f]])]
        /\ Commit(s, Done(s, ResData(200, "OTP verified successfully", NoTok,
                                     [phoneVerified |-> set.phoneVerified,
                                      emailVerified |-> set.emailVerified,
                                      isVerified |-> set.isVerified])))
  /\ UNCHANGED <<now, issued, rotated, revoked, resetLog, otpLog, budget, otpStorage, timers>>

(* ----------------------------- OTP service ---------------------------- *)

\* otpStorage.delete(identifier)
OtpDelete(identifier) == [k \in DOMAIN otpStorage \ {identifier} |-> otpStorage[k]]

\* otpStorage.set(identifier, record)
OtpSet(identifier, record) == [k \in DOMAIN otpStorage \cup {identifier} |->
                                 IF k = identifier THEN record ELSE otpStorage[k]]

\* the response of an OTP call; attemptsLeft is NoCount where the code leaves it out
OtpRes(success, message, attemptsLeft) ==
  [success |-> success, message |-> message, attemptsLeft |-> attemptsLeft]

\* history of an OTP call: its identifier, whether its code was the one stored, and whether
\* its code had verified for the identifier since the last OTP was stored for it
OtpCall(op, identifier, correct, spent, res) ==
  [op |-> op, uid |-> 0, res |-> res,
   g |-> [identifier |-> identifier, correct |-> correct, spent |-> spent]]

\* generateAndStoreOTP -> storeOTP: the record and the cleanup timer; otp is the code drawn by
\* generateSecureOTP
GenerateAndStoreOTP(identifier, otp) ==
  /\ budget > 0
  /\ budget' = budget - 1
  /\ otpStorage' = OtpSet(identifier, [otp |-> otp, expirationTime |-> now + OtpTTL,
                                        attempts |-> 0, maxAttempts |-> OtpMaxAttempts])
  /\ timers' = timers \cup {[identifier |-> identifier, due |-> now + OtpTTL + 1]}
  /\ otpLog' = [fresh |-> {p \in otpLog.fresh : p[1] # identifier} \cup {<<identifier, now + OtpTTL>>},
                 spent |-> {p \in otpLog.spent : p[1] # identifier}]
  /\ last' = OtpCall("generateAndStoreOTP", identifier, TRUE, FALSE, OtpRes(TRUE, otp, NoCount))
  /\ UNCHANGED <<now, users, reqs, issued, rotated, revoked, resetLog>>

\* variant: a callback that deletes whatever record its identifier has
OtpCleanupAlways(timer) ==
  /\ timer \in timers
  /\ now >= timer.due
  /\ timers' = timers \ {timer}
  /\ otpStorage' = OtpDelete(timer.identifier)
  /\ last' = OtpCall("cleanup", timer.identifier, FALSE, FALSE, OtpRes(FALSE, "", NoCount))
  /\ UNCHANGED <<now, users, reqs, issued, rotated, revoked, resetLog, otpLog, budget>>

\* the setTimeout callback of storeOTP
OtpCleanup(timer) ==
  /\ timer \in timers
  /\ now >= timer.due
  /\ timers' = timers \ {timer}
  /\ otpStorage' = IF /\ timer.identifier \in DOMAIN otpStorage
                      /\ otpStorage[timer.identifier].expirationTime < now
                   THEN OtpDelete(timer.identifier)
                   ELSE otpStorage
  /\ last' = OtpCall("cleanup", timer.identifier, FALSE, FALSE, OtpRes(FALSE, "", NoCount))
  /\ UNCHANGED <<now, users, reqs, issued, rotated, revoked, resetLog, otpLog, budget>>

\* variant: a matching code leaves the record stored
OtpOutcomeKeeps(stored, providedOTP, t) ==
  IF stored.expirationTime < t
  THEN [delete |-> TRUE, attempts |-> stored.attempts,
        res |-> OtpRes(FALSE, "OTP has expired", NoCount)]
  ELSE IF stored.attempts >= stored.maxAttempts
  THEN [delete |-> TRUE, attempts |-> stored.attempts,
        res |-> OtpRes(FALSE, "Maximum verification attempts exceeded", NoCount)]
  ELSE IF stored.otp = providedOTP
  THEN [delete |-> FALSE, attempts |-> stored.attempts + 1,
        res |-> OtpRes(TRUE, "OTP verified successfully", NoCount)]
  ELSE [delete |-> FALSE, attempts |-> stored.attempts + 1,
        res |-> OtpRes(FALSE, "Invalid OTP", stored.maxAttempts - (stored.attempts + 1))]

\* variant: the attempts check refuses once the counter exceeds maxAttempts
OtpOutcomeLate(stored, providedOTP, t) ==
  IF stored.expirationTime < t
  THEN [delete |-> TRUE, attempts |-> stored.attempts,
        res |-> OtpRes(FALSE, "OTP has expired", NoCount)]
  ELSE IF stored.attempts > stored.maxAttempts
  THEN [delete |-> TRUE, attempts |-> stored.attempts,
        res |-> OtpRes(FALSE, "Maximum verification attempts exceeded", NoCount)]
  ELSE IF stored.otp = providedOTP
  THEN [delete |-> TRUE, attempts |-> stored.attempts + 1,
        res |-> OtpRes(TRUE, "OTP verified successfully", NoCount)]
  ELSE [delete |-> FALSE, attempts |-> stored.attempts + 1,
        res |-> OtpRes(FALSE, "Invalid OTP", stored.maxAttempts - (stored.attempts + 1))]

\* verifyOTP on a stored record: whether the record is deleted, its attempts, the response
OtpOutcome(stored, providedOTP, t) ==
  IF stored.expirationTime < t
  THEN [delete |-> TRUE, attempts |-> stored.attempts,
        res |-> OtpRes(FALSE, "OTP has expired", NoCount)]
  ELSE IF stored.attempts >= stored.maxAttempts
  THEN [delete |-> TRUE, attempts |-> stored.attempts,
        res |-> OtpRes(FALSE, "Maximum verification attempts exceeded", NoCount)]
  ELSE IF stored.otp = providedOTP
  THEN [delete |-> TRUE, attempts |-> stored.attempts + 1,
        res |-> OtpRes(TRUE, "OTP verified successfully", NoCount)]
  ELSE [delete |-> FALSE, attempts |-> stored.attempts + 1,
        res |-> OtpRes(FALSE, "Invalid OTP", stored.maxAttempts - (stored.attempts + 1))]

\* verifyOTP of utils/otp.js
VerifyStoredOTP(identifier, providedOTP) ==
  /\ budget > 0
  /\ budget' = budget - 1
  /\ LET spent == <<identifier, providedOTP>> \in otpLog.spent
     IN IF identifier \notin DOMAIN otpStorage
        THEN /\ otpStorage' = otpStorage
             /\ otpLog' = [otpLog EXCEPT !.fresh = {p \in @ : p[1] # identifier}]
             /\ last' = OtpCall("verifyOTP", identifier, FALSE, spent,
                                OtpRes(FALSE, "OTP not found or expired", NoCount))
        ELSE LET o == OtpOutcome(otpStorage[identifier], providedOTP, now)
             IN /\ otpStorage' = IF o.delete THEN OtpDelete(identifier)
                                 ELSE OtpSet(identifier, [otpStorage[identifier] EXCEPT !.attempts = o.attempts])
                /\ otpLog' = [fresh |-> {p \in otpLog.fresh : p[1] # identifier},
                               spent |-> IF o.res.success
                                         THEN otpLog.spent \cup {<<identifier, providedOTP>>}
                                         ELSE otpLog.spent]
                /\ last' = OtpCall("verifyOTP", identifier,
                                   otpStorage[identifier].otp = providedOTP, spent, o.res)
  /\ UNCHANGED <<now, users, reqs, issued, rotated, revoked, resetLog, timers>>

(* --------------------------- specifications --------------------------- *)

EmailInputs == {"a@x.com", "A@x.com", "b@x.com"}
PhoneInputs == {"017", "018"}
Passwords == {"pw1", "pw2"}
ResetTokens == {ResetTokenSeq[i] : i \in 1..Len(ResetTokenSeq)}

\* the tokens a client can present: those of the pairs handed out, signed with either secret
PresentedTokens(secrets) == {SignToken(p[1], sec, p[2]) : p \in issued, sec \in secrets}

InitStore ==
  /\ now = 0
  /\ users = <<>>
  /\ reqs = [s \in Slots |-> Idle]
  /\ issued = {}
  /\ rotated = {}
  /\ revoked = {}
  /\ resetLog = [made |-> {}, failed |-> {}, used |-> {}]
  /\ otpLog = [fresh |-> {}, spent |-> {}]
  /\ otpStorage = [k \in {} |-> NoDoc]
  /\ timers = {}
  /\ last = NoLast

Init == InitStore /\ budget = MaxRequests

Next ==
  \/ Tick(MaxTime)
  \/ \E s \in Slots, e \in {"a@x.com"}, ph \in {"017"}, pw \in {"pw1"} : RegisterFind(s, e, ph, pw)
  \/ \E s \in Slots : RegisterCreate(s)
  \/ \E s \in Slots : RegisterSave(s)
  \/ \E s \in Slots, e \in {"a@x.com", NoStr}, ph \in {"017", NoStr}, pw \in Passwords : LoginFind(s, e, ph, pw)
  \/ \E s \in Slots : LoginCheck(s)
  \/ \E s \in Slots : LoginSave(s)
  \/ \E s \in Slots, tok \in PresentedTokens({"refresh", "access"}) \cup {NoTok} : RefreshFind(s, tok)
  \/ \E s \in Slots : RefreshRotate(s)
  \/ \E s \in Slots, tok \in PresentedTokens({"access"}), cur \in Passwords, new \in Passwords :
       ChangePasswordProtect(s, tok, cur, new)
  \/ \E s \in Slots : ProtectFind(s)
  \/ \E s \in Slots : ChangePasswordFind(s)
  \/ \E s \in Slots : ChangePasswordSave(s)
  \/ \E s \in Slots : ChangePasswordIssue(s)
  \/ \E s \in Slots, tok \in PresentedTokens({"access"}),
        rt \in PresentedTokens({"refresh"}) \cup {NoTok} : LogoutProtect(s, tok, rt)
  \/ \E s \in Slots : Logout(s)
  \/ \E s \in Slots, e \in {"a@x.com"} : ForgotPasswordFind(s, e)
  \/ \E s \in Slots, rt \in ResetTokens : ForgotPasswordSave(s, rt)
  \/ \E s \in Slots : ForgotPasswordSent(s)
  \/ \E s \in Slots : ForgotPasswordSendFailed(s)
  \/ \E s \in Slots, rt \in ResetTokens, pw \in Passwords, cf \in Passwords : ResetPasswordFind(s, rt, pw, cf)
  \/ \E s \in Slots : ResetPasswordSave(s)
  \/ \E s \in Slots : ResetPasswordIssue(s)

Spec == Init /\ [][Next]_vars

\* the lockout specification: one account is registered and then only logs in
InitLockout == InitStore /\ budget = MaxLogins

NextLockout ==
  \/ Tick(MaxLockTime)
  \/ \E s \in Slots : RegisterFind(s, "a@x.com", "017", "pw1")
  \/ \E s \in Slots : RegisterCreate(s)
  \/ \E s \in Slots : RegisterSave(s)
  \/ \E s \in Slots, e \in {"a@x.com", "b@x.com"}, pw \in Passwords : LoginFind(s, e, NoStr, pw)
  \/ \E s \in Slots : LoginCheck(s)
  \/ \E s \in Slots : LoginSave(s)

SpecLockout == InitLockout /\ [][NextLockout]_vars

\* the OTP specification: the service of utils/otp.js on its own
Identifiers == {"017", "018"}
Codes == {<<1, 1, 1, 1, 1, 1>>, <<2, 2, 2, 2, 2, 2>>}

InitOtp == InitStore /\ budget = MaxOtpCalls

NextOtp ==
  \/ Tick(MaxLockTime)
  \/ \E i \in Identifiers, c \in Codes : GenerateAndStoreOTP(i, c)
  \/ \E i \in Identifiers, c \in Codes : VerifyStoredOTP(i, c)
  \/ \E tm \in timers : OtpCleanup(tm)

SpecOtp == InitOtp /\ [][NextOtp]_vars

(* ------------------------------- claims ------------------------------- *)

\* the step answers the login request of slot s
LoginAnswered(s) == reqs[s].op = "login" /\ reqs[s].pc # "idle" /\ reqs'[s].pc = "idle"

\* the login request of slot s found a user and carries the password stored for it
RightPassword(s) ==
  reqs[s].uid # 0 /\ ComparePassword(reqs[s].arg.password, users[reqs[s].uid].password)

\* the login request of slot s found a user and carries another password than the one stored
WrongPassword(s) ==
  reqs[s].uid # 0 /\ ~ComparePassword(reqs[s].arg.password, users[reqs[s].uid].password)

\* C4: a wrong-password login that overlaps no other request, on an account with no lock set
\* and fewer than five attempts counted, counts one attempt more; the attempts that bring the
\* count to one, two, three and four leave lockUntil unset, the one that brings it to five sets
\* lockUntil to that moment plus the lock time
C4_FifthFailureLocks ==
  [][\A s \in Slots :
       (/\ LoginAnswered(s) /\ WrongPassword(s) /\ reqs[s].g.solo
        /\ users[reqs[s].uid].lockUntil = NoTime
        /\ users[reqs[s].uid].loginAttempts < LockThreshold)
       => (/\ users'[reqs[s].uid].loginAttempts = users[reqs[s].uid].loginAttempts + 1
           /\ users'[reqs[s].uid].lockUntil =
                IF users[reqs[s].uid].loginAttempts + 1 = LockThreshold
                THEN now + LockTime ELSE NoTime)]_vars

\* C4 witness: the fifth consecutive failure has been answered and the account is locked
C4_Witness ==
  /\ last.op = "login" /\ last.g.solo /\ last.res.status = 401 /\ last.uid # 0
  /\ users[last.uid].loginAttempts = LockThreshold
  /\ users[last.uid].lockUntil = now + LockTime

\* C5: a login with the right password that read the account under a lock, answered while that
\* lock is still in force, is refused with 423, carries no token and leaves the store as it was
C5_LockedRefusesRightPassword ==
  [][\A s \in Slots :
       (/\ LoginAnswered(s) /\ RightPassword(s)
        /\ reqs[s].g.seen # NoTime
        /\ reqs[s].g.seen > now)
       => (/\ last'.res.status = 423
           /\ last'.res.refreshToken = NoTok
           /\ users' = users
           /\ issued' = issued)]_vars

\* C5 witness: a login with the right password was refused with 423
C5_Witness ==
  /\ last.op = "login" /\ last.res.status = 423
  /\ last.uid # 0 /\ users[last.uid].lockUntil # NoTime /\ users[last.uid].lockUntil > now

\* C6 (as claimed): a wrong-password login answered while the account is locked, the one that
\* sets the lock included, is answered 423
C6_LockedRefusesWrongPassword ==
  [][\A s \in Slots :
       (/\ LoginAnswered(s) /\ WrongPassword(s)
        /\ users'[reqs[s].uid].lockUntil # NoTime
        /\ users'[reqs[s].uid].lockUntil > now)
       => last'.res.status = 423]_vars

\* C7: a login with the right password that read a lapsed lock is answered 200 with a token, and
\* when it overlaps no other request the stored loginAttempts is 0 and lockUntil is unset once
\* it is answered: its save writes neither the counter nor the lock it read
C7_LapsedLockCleared ==
  [][\A s \in Slots :
       (/\ LoginAnswered(s) /\ RightPassword(s)
        /\ reqs[s].g.seen # NoTime /\ reqs[s].g.seen < now)
       => (/\ last'.res.status = 200
           /\ last'.res.refreshToken # NoTok
           /\ reqs[s].g.solo =>
                (/\ users'[reqs[s].uid].loginAttempts = 0
                 /\ users'[reqs[s].uid].lockUntil = NoTime))]_vars

\* C7 witness: a login that read a lock set earlier was answered 200
C7_Witness ==
  /\ last.op = "login" /\ last.g.solo /\ last.res.status = 200 /\ last.g.seen # NoTime
  /\ users[last.uid].loginAttempts = 0 /\ users[last.uid].lockUntil = NoTime

\* C9: a login that finds no account and a login that finds one but carries a wrong password
\* get the same response, 401 "Invalid credentials" with no token
C9_SameFailureResponse ==
  [][\A s \in Slots :
       (LoginAnswered(s) /\ (reqs[s].uid = 0 \/ WrongPassword(s)))
       => last'.res = Res(401, "Invalid credentials")]_vars

\* C9 witness: a login for an unknown account was answered after one for a known account with
\* a wrong password had been counted
C9_Witness ==
  /\ last.op = "login" /\ last.uid = 0 /\ last.res.status = 401
  /\ \E i \in Ids : users[i].loginAttempts > 0

\* the step is a verifyOTP call for identifier i
OtpVerified(i) == budget' = budget - 1 /\ last'.op = "verifyOTP" /\ last'.g.identifier = i

\* the record of identifier i is stored, unexpired, and has counted n attempts
OtpLive(i, n) ==
  /\ i \in DOMAIN otpStorage
  /\ otpStorage[i].expirationTime >= now
  /\ otpStorage[i].attempts = n

\* C10 (as claimed): the third wrong code in a row for a stored, unexpired OTP is answered
\* AttemptsExceeded and that call purges the record
C10_ThirdWrongCodeExceeds ==
  [][\A i \in Identifiers :
       (OtpVerified(i) /\ OtpLive(i, 2) /\ ~last'.g.correct)
       => (/\ last'.res.message = "Maximum verification attempts exceeded"
           /\ i \notin DOMAIN otpStorage')]_vars

\* C10 (amended): each of the first three wrong codes for a stored, unexpired OTP is answered
\* Invalid OTP with 2, 1 and 0 attempts left and stays stored; the fourth verify, the stored code
\* included, is answered AttemptsExceeded and purges the record; a verify with no record stored
\* is answered NotFound
C10_FourthCallExceeds ==
  [][\A i \in Identifiers :
       /\ \A n \in 0..(OtpMaxAttempts - 1) :
            (OtpVerified(i) /\ OtpLive(i, n) /\ ~last'.g.correct)
            => (/\ last'.res = OtpRes(FALSE, "Invalid OTP", OtpMaxAttempts - 1 - n)
                /\ i \in DOMAIN otpStorage'
                /\ otpStorage'[i] = [otpStorage[i] EXCEPT !.attempts = n + 1])
       /\ (OtpVerified(i) /\ OtpLive(i, OtpMaxAttempts))
            => (/\ last'.res = OtpRes(FALSE, "Maximum verification attempts exceeded", NoCount)
                /\ i \notin DOMAIN otpStorage')
       /\ (OtpVerified(i) /\ i \notin DOMAIN otpStorage)
            => (/\ last'.res = OtpRes(FALSE, "OTP not found or expired", NoCount)
                /\ otpStorage' = otpStorage)]_vars

\* C10 witness: the stored code itself was refused with AttemptsExceeded and the record purged
C10_Witness ==
  /\ last.op = "verifyOTP" /\ last.g.correct
  /\ last.res.message = "Maximum verification attempts exceeded"
  /\ last.g.identifier \notin DOMAIN otpStorage


(* ------------------------------ registration ----------------------------- *)

\* the register requests of the registration specification: emails that differ, emails that
\* differ in case only, and two phone numbers
RegisterEmails == {"a@x.com", "A@x.com", "b@x.com"}

RegisterPhones == {"017", "018"}

InitRegister == InitStore /\ budget = MaxRegisters

NextRegister ==
  \/ Tick(MaxTime)
  \/ \E s \in Slots, e \in RegisterEmails, ph \in RegisterPhones : RegisterFind(s, e, ph, "pw1")
  \/ \E s \in Slots : RegisterCreate(s)
  \/ \E s \in Slots : RegisterSave(s)

SpecRegister == InitRegister /\ [][NextRegister]_vars

(* ------------------------------ refresh and password claims -------------- *)

\* C1 (as stated): a RefreshToken call that begins after a RefreshToken call with the same
\* token has succeeded is answered 401 and returns no token
C1_RotatedTokenRefused ==
  (last.op = "refresh" /\ last.g.late) =>
    (last.res.status = 401 /\ last.res.refreshToken = NoTok)

\* C2: of two RefreshToken calls in flight at the same time with the same valid token, the one
\* that saves after the other has succeeded is answered 401 "Invalid refresh token" and
\* returns no token
C2_OneWinner ==
  (last.op = "refresh" /\ last.g.raced) =>
    (last.res = Res(401, "Invalid refresh token"))

\* a RefreshToken call lost the race: it read the user while the token was stored, and the
\* other call rotated the token out before it saved
C2_Witness ==
  /\ last.op = "refresh" /\ last.g.raced /\ ~last.g.solo
  /\ last.uid # 0
  /\ last.res.status = 401

\* C3 (as stated): a RefreshToken call with a refresh token issued for an account before a
\* ChangePassword or ResetPassword of that account succeeded is answered 401
C3_OldTokensRefused ==
  (last.op = "refresh" /\ last.g.revoked) =>
    (last.res.status = 401 /\ last.res.refreshToken = NoTok)

(* ------------------------------ registration claims ---------------------- *)

\* an account is stored under the email (lowercased) or the phone
Taken(email, phone) ==
  \E i \in Ids : users[i].email = Lowercase(email) \/ users[i].phone = phone

\* no two accounts share an email or a phone
UniqueEmailPhone ==
  \A i, j \in Ids : i # j => (users[i].email # users[j].email /\ users[i].phone # users[j].phone)

\* the request in slot s is answered 400 in this step and no account is created
Conflict(s) ==
  /\ last'.op = "register" /\ last'.res.status = 400
  /\ reqs'[s] = Idle
  /\ users' = users

\* C8: no two accounts ever share an email or a phone, and a Register whose email or phone is
\* that of a stored account is answered 400 and creates no account, whether the account was
\* stored before the request began or while it was in flight
C8_UniqueAccounts ==
  [][/\ UniqueEmailPhone'
     /\ \A s \in Slots, e \in RegisterEmails, ph \in RegisterPhones :
          (RegisterFind(s, e, ph, "pw1") /\ Taken(e, ph)) => Conflict(s)
     /\ \A s \in Slots :
          (RegisterCreate(s) /\ Taken(reqs[s].arg.email, reqs[s].arg.phone)) => Conflict(s)]_vars

\* a Register lost the race: it found no account, and the unique index refused its create;
\* two accounts are stored
C8_Witness ==
  /\ last.op = "register" /\ ~last.g.solo
  /\ last.res.status = 400
  /\ last.res.message \in {"This email address is already registered. Please use a different email.",
                           "This phone number is already registered. Please use a different phone number."}
  /\ Len(users) = 2

(* ------------------------------ OTP expiry claims ------------------------ *)

OtpInputs == Codes \cup {<<1, 2, 3, 4, 5>>, NoOtp}

InitVerify == InitStore /\ budget = MaxVerifies

NextVerify ==
  \/ \E s \in Slots : RegisterFind(s, "a@x.com", "017", "pw1")
  \/ \E s \in Slots : RegisterCreate(s)
  \/ \E s \in Slots : RegisterSave(s)
  \/ \E s \in Slots, ph \in Identifiers, otp \in OtpInputs, type \in {"phone", "email"} :
       VerifyOtpFind(s, ph, otp, type)
  \/ \E s \in Slots : VerifyOtpSave(s)

SpecVerify == InitVerify /\ [][NextVerify]_vars

\* the OTP service would accept the code for the identifier
OtpAccepts(identifier, code) ==
  /\ identifier \in DOMAIN otpStorage
  /\ OtpOutcome(otpStorage[identifier], code, now).res.success

\* C12 (as stated): VerifyOTP sets phoneVerified on an account only when the OTP service
\* accepts the code of the request for the phone of the request
C12_FlagOnlyWhenAccepted ==
  [][\A s \in Slots :
       (/\ VerifyOtpSave(s)
        /\ users'[reqs[s].uid].phoneVerified /\ ~users[reqs[s].uid].phoneVerified)
       => OtpAccepts(reqs[s].arg.phone, reqs[s].arg.otp)]_vars

\* C13 (as stated): when Register has succeeded the OTP service holds a record for the phone of
\* the new account, and it accepts the code the record holds
C13_RegisterStoresOtp ==
  [][\A s \in Slots :
       RegisterSave(s)
       => (/\ users[reqs[s].uid].phone \in DOMAIN otpStorage'
           /\ otpStorage'[users[reqs[s].uid].phone].expirationTime >= now
           /\ otpStorage'[users[reqs[s].uid].phone].attempts = 0)]_vars

\* C20 (as stated): isVerified is true exactly when phoneVerified and emailVerified are, and a
\* VerifyOTP of type email that succeeds on an account whose phone is verified leaves
\* emailVerified and isVerified true
C20_VerifiedIffBoth ==
  [][/\ \A i \in 1..Len(users') :
          users'[i].isVerified <=> (users'[i].phoneVerified /\ users'[i].emailVerified)
     /\ \A s \in Slots :
          (VerifyOtpSave(s) /\ reqs[s].arg.type = "email" /\ users[reqs[s].uid].phoneVerified)
          => (users'[reqs[s].uid].emailVerified /\ users'[reqs[s].uid].isVerified)]_vars

(* ------------------------------ logout claims ---------------------------- *)

\* C14 (as stated): a Logout that passed protect is answered 200, whether its refresh token is
\* stored, not stored or omitted; when it is answered the token is not stored for the account
\* and every other stored refresh token of the account is as it was
C14_LogoutAlwaysSucceeds ==
  [][\A s \in Slots :
       Logout(s)
       => (/\ last'.res = Res(200, "Logged out successfully")
           /\ users'[reqs[s].uid].refreshTokens =
                Without(users[reqs[s].uid].refreshTokens, reqs[s].arg.token))]_vars

(* ------------------------------ password reset --------------------------- *)

InitReset == InitStore /\ budget = MaxResets

NextReset ==
  \/ Tick(MaxTime)
  \/ \E s \in Slots : RegisterFind(s, "a@x.com", "017", "pw1")
  \/ \E s \in Slots : RegisterCreate(s)
  \/ \E s \in Slots : RegisterSave(s)
  \/ \E s \in Slots, tok \in PresentedTokens({"access"}), rt \in PresentedTokens({"refresh"}) :
       LogoutProtect(s, tok, rt)
  \/ \E s \in Slots : ProtectFind(s)
  \/ \E s \in Slots : Logout(s)
  \/ \E s \in Slots : ForgotPasswordFind(s, "a@x.com")
  \/ \E s \in Slots, rt \in ResetTokens : ForgotPasswordSave(s, rt)
  \/ \E s \in Slots : ForgotPasswordSent(s)
  \/ \E s \in Slots : ForgotPasswordSendFailed(s)
  \/ \E s \in Slots, rt \in ResetTokens, cf \in Passwords : ResetPasswordFind(s, rt, "pw2", cf)
  \/ \E s \in Slots : ResetPasswordSave(s)
  \/ \E s \in Slots : ResetPasswordIssue(s)

SpecReset == InitReset /\ [][NextReset]_vars

\* C15: when sendEmail fails, ForgotPassword is answered 500 and the stored passwordResetToken
\* and passwordResetExpires of the account are both unset; a ResetPassword that begins after
\* that with the token of the failed call is answered 400 and changes no account
C15_FailedDeliveryRollsBack ==
  [][\A s \in Slots :
       /\ ForgotPasswordSendFailed(s)
          => (/\ last'.res = Res(500, "There was an error sending the email. Try again later.")
              /\ users'[reqs[s].uid].passwordResetToken = NoHash
              /\ users'[reqs[s].uid].passwordResetExpires = NoTime)
       /\ \A rt \in ResetTokens, cf \in Passwords :
            (ResetPasswordFind(s, rt, "pw2", cf) /\ rt \in resetLog.failed)
            => (/\ last'.op = "resetPassword" /\ last'.res.status = 400
                /\ reqs'[s] = Idle
                /\ users' = users)]_vars

\* C15 witness: a ResetPassword with the token of a ForgotPassword whose email failed, and with
\* matching passwords, was answered 400
C15_Witness ==
  /\ last.op = "resetPassword" /\ last.g.undelivered
  /\ last.res = Res(400, "Token is invalid or has expired")

\* C16 (as stated): a reset token is accepted at most once, and a ResetPassword whose token
\* matches no stored, unexpired reset hash is answered 400 and changes no account
C16_ResetTokenOnce ==
  [][\A s \in Slots :
       /\ (ResetPasswordSave(s) /\ reqs'[s].pc = "issue")
            => reqs[s].arg.token \notin resetLog.used
       /\ \A rt \in ResetTokens, cf \in Passwords :
            (ResetPasswordFind(s, rt, "pw2", cf) /\ FindByResetToken(Sha256(rt), now) = 0)
            => (last'.res.status = 400 /\ users' = users)]_vars

\* C17: the stored passwordResetToken and passwordResetExpires of every account are both set
\* or both unset
C17_ResetFieldsTogether ==
  \A i \in Ids : (users[i].passwordResetToken = NoHash) <=> (users[i].passwordResetExpires = NoTime)

\* C17 witness: an account holds a reset hash and its expiry after a ForgotPassword was rolled
\* back and a ResetPassword succeeded
C17_Witness ==
  /\ resetLog.failed # {} /\ resetLog.used # {}
  /\ \E i \in Ids : users[i].passwordResetToken # NoHash /\ users[i].passwordResetExpires # NoTime

(* ------------------------------ response claims -------------------------- *)

\* C18 (as stated): the user in the response of a Register or a Login that succeeded holds
\* neither the password hash nor the stored refreshTokens
C18_SanitizedAccount ==
  (last.op \in {"register", "login"} /\ last.res.status \in {200, 201})
  => (/\ "password" \notin DOMAIN last.res.data
      /\ "refreshTokens" \notin DOMAIN last.res.data)

(* ------------------------------ protect ---------------------------------- *)

InitProtect == InitStore /\ budget = MaxProtects

NextProtect ==
  \/ Tick(MaxProtectTime)
  \/ \E s \in Slots : RegisterFind(s, "a@x.com", "017", "pw1")
  \/ \E s \in Slots : RegisterCreate(s)
  \/ \E s \in Slots : RegisterSave(s)
  \/ \E s \in Slots : LoginFind(s, "a@x.com", NoStr, "pw2")
  \/ \E s \in Slots : LoginCheck(s)
  \/ \E s \in Slots, tok \in PresentedTokens({"access", "refresh"}) \cup {NoTok} :
       LogoutProtect(s, tok, NoTok)
  \/ \E s \in Slots : ProtectFind(s)
  \/ \E s \in Slots : Logout(s)

SpecProtect == InitProtect /\ [][NextProtect]_vars

\* C19: protect hands a request to its handler only when the bearer token is signed with the
\* access secret and unexpired, its id is that of a stored account, and that account is active
\* and not locked at that moment; a well-signed expired token is answered 401 "Token expired."
\* and a token with another signature 401 "Invalid token."
C19_ProtectGate ==
  [][\A s \in Slots :
       /\ \A tok \in PresentedTokens({"access", "refresh"}) :
            LogoutProtect(s, tok, NoTok)
            => (/\ reqs'[s].pc = "verified"
                     <=> (tok.secret = "access" /\ now < tok.iat + AccessExpire)
                /\ (tok.secret = "access" /\ now >= tok.iat + AccessExpire)
                     => last'.res = Res(401, "Token expired.")
                /\ tok.secret # "access" => last'.res = Res(401, "Invalid token."))
       /\ (ProtectFind(s) /\ reqs'[s].pc = "protected")
            => (/\ reqs[s].uid \in Ids
                /\ users[reqs[s].uid].status = "active"
                /\ ~(users[reqs[s].uid].lockUntil # NoTime /\ users[reqs[s].uid].lockUntil > now)
                /\ reqs'[s].doc = users[reqs[s].uid])
       /\ Logout(s) => reqs[s].pc = "protected"]_vars

\* C19 witness: protect refused a request with a valid token because the account was locked
C19_Witness ==
  /\ last.op = "logout" /\ last.res.status = 423
  /\ last.uid # 0 /\ users[last.uid].lockUntil > now

(* ------------------------------ password --------------------------------- *)

InitPassword == InitStore /\ budget = MaxPasswordRequests

\* the clock stands still: no duration of the program bears on the stored password
NextPassword ==
  \/ \E s \in Slots : RegisterFind(s, "a@x.com", "017", "pw1")
  \/ \E s \in Slots : RegisterCreate(s)
  \/ \E s \in Slots : RegisterSave(s)
  \/ \E s \in Slots, pw \in Passwords : LoginFind(s, "a@x.com", NoStr, pw)
  \/ \E s \in Slots : LoginCheck(s)
  \/ \E s \in Slots : LoginSave(s)
  \/ \E s \in Slots, tok \in PresentedTokens({"refresh"}) : RefreshFind(s, tok)
  \/ \E s \in Slots : RefreshRotate(s)
  \/ \E s \in Slots, tok \in PresentedTokens({"access"}), cur \in Passwords :
       ChangePasswordProtect(s, tok, cur, "pw2")
  \/ \E s \in Slots : ProtectFind(s)
  \/ \E s \in Slots : ChangePasswordFind(s)
  \/ \E s \in Slots : ChangePasswordSave(s)
  \/ \E s \in Slots : ChangePasswordIssue(s)
  \/ \E s \in Slots, tok \in PresentedTokens({"access"}), rt \in PresentedTokens({"refresh"}) :
       LogoutProtect(s, tok, rt)
  \/ \E s \in Slots : Logout(s)
  \/ \E s \in Slots : ForgotPasswordFind(s, "a@x.com")
  \/ \E s \in Slots, rt \in ResetTokens : ForgotPasswordSave(s, rt)
  \/ \E s \in Slots : ForgotPasswordSent(s)
  \/ \E s \in Slots : ForgotPasswordSendFailed(s)
  \/ \E s \in Slots, rt \in ResetTokens : ResetPasswordFind(s, rt, "pw2", "pw2")
  \/ \E s \in Slots : ResetPasswordSave(s)
  \/ \E s \in Slots : ResetPasswordIssue(s)
  \/ \E s \in Slots : VerifyOtpFind(s, "017", <<1, 1, 1, 1, 1, 1>>, "phone")
  \/ \E s \in Slots : VerifyOtpSave(s)

SpecPassword == InitPassword /\ [][NextPassword]_vars

\* the step is the save of the changePassword or resetPassword request of slot s that stores
\* its new password
PasswordSaved(s) ==
  /\ reqs[s].op \in {"changePassword", "resetPassword"}
  /\ reqs[s].pc = "save" /\ reqs'[s].pc = "issue"

\* the password the request of slot s asks to set
NewPassword(s) ==
  IF reqs[s].op = "changePassword" THEN reqs[s].arg.newPassword ELSE reqs[s].arg.password

\* C21: the stored password of an account is the hash of the password of Register, and changes
\* only in the save of a ChangePassword or ResetPassword, to the hash of the new password; no
\* other save (token append of Register, Login, Logout, RefreshToken, ForgotPassword,
\* VerifyOTP) alters it; a Login that overlaps no other request, on an active account that
\* is not locked, is answered 200 when its password is the one whose hash is stored and 401
\* with any other password
C21_PasswordRoundTrip ==
  [][/\ \A s \in Slots :
          (RegisterCreate(s) /\ Len(users') > Len(users))
          => users'[Len(users')].password = Hash(reqs[s].arg.password)
     /\ \A s \in Slots :
          PasswordSaved(s) => users'[reqs[s].uid].password = Hash(NewPassword(s))
     /\ \A i \in Ids :
          users'[i].password # users[i].password
          => \E s \in Slots : PasswordSaved(s) /\ reqs[s].uid = i
     /\ \A s \in Slots :
          (/\ LoginAnswered(s) /\ reqs[s].g.solo /\ reqs[s].uid # 0
           /\ users[reqs[s].uid].status = "active"
           /\ ~(users[reqs[s].uid].lockUntil # NoTime /\ users[reqs[s].uid].lockUntil > now))
          => (/\ users[reqs[s].uid].password = Hash(reqs[s].arg.password)
                  => last'.res.status = 200
              /\ users[reqs[s].uid].password # Hash(reqs[s].arg.password)
                  => last'.res.status = 401)]_vars

\* C21 witness: after the password of the account was changed from that of Register, a Login
\* with the new password was answered 200 and the stored hash is that of the new password
C21_Witness ==
  /\ last.op = "login" /\ last.g.solo /\ last.res.status = 200
  /\ last.res.data.email = "a@x.com"
  /\ users[last.uid].password = Hash("pw2")
  /\ users[last.uid].refreshTokens # <<>>

(* ------------------------------ lockout counters ------------------------- *)

\* C22 (as stated): a login that fails password verification for an existing account leaves
\* the stored loginAttempts one higher than it was, and leaves it at 1 when the stored lock
\* had lapsed
C22_FailureCountsOne ==
  [][\A s \in Slots :
       (LoginAnswered(s) /\ WrongPassword(s))
       => users'[reqs[s].uid].loginAttempts =
            IF users[reqs[s].uid].lockUntil # NoTime /\ users[reqs[s].uid].lockUntil < now
            THEN 1
            ELSE users[reqs[s].uid].loginAttempts + 1]_vars

(* ------------------------------ sessions --------------------------------- *)

InitSessions == InitStore /\ budget = MaxSessions

NextSessions ==
  \/ Tick(MaxSessionTime)
  \/ \E s \in Slots : RegisterFind(s, "a@x.com", "017", "pw1")
  \/ \E s \in Slots : RegisterCreate(s)
  \/ \E s \in Slots : RegisterSave(s)
  \/ \E s \in Slots, pw \in Passwords : LoginFind(s, "a@x.com", NoStr, pw)
  \/ \E s \in Slots : LoginCheck(s)
  \/ \E s \in Slots : LoginSave(s)
  \/ \E s \in Slots, tok \in PresentedTokens({"refresh"}) : RefreshFind(s, tok)
  \/ \E s \in Slots : RefreshRotate(s)

SpecSessions == InitSessions /\ [][NextSessions]_vars

\* C23: a Login that succeeds appends its new refresh token to the stored refreshTokens and
\* changes nothing else in the array; a RefreshToken(t) that succeeds stores, in one write,
\* the stored tokens other than t followed by the new token, so every stored refresh token
\* other than t is still stored after it
C23_OtherSessionsIntact ==
  [][\A s \in Slots :
       /\ (LoginAnswered(s) /\ last'.res.status = 200)
            => users'[reqs[s].uid].refreshTokens =
                 Append(users[reqs[s].uid].refreshTokens, last'.res.refreshToken)
       /\ (RefreshRotate(s) /\ last'.res.status = 200)
            => (/\ users'[reqs[s].uid].refreshTokens =
                     Append(SelectSeq(users[reqs[s].uid].refreshTokens,
                                      LAMBDA x : x # reqs[s].arg.token),
                            last'.res.refreshToken)
                /\ \A k \in 1..Len(users[reqs[s].uid].refreshTokens) :
                     users[reqs[s].uid].refreshTokens[k] # reqs[s].arg.token
                     => Includes(users'[reqs[s].uid].refreshTokens,
                                 users[reqs[s].uid].refreshTokens[k]))]_vars

\* C23 witness: a RefreshToken succeeded on an account that holds the token of another
\* session, issued at another time than the token rotated out and the token rotated in
C23_Witness ==
  /\ last.op = "refresh" /\ last.res.status = 200
  /\ \E k \in 1..Len(users[last.uid].refreshTokens) :
       /\ users[last.uid].refreshTokens[k] # last.res.refreshToken
       /\ users[last.uid].refreshTokens[k] \notin rotated
  /\ last.res.refreshToken \notin rotated

(* ------------------------------ OTP use claims --------------------------- *)

\* the step is a verifyOTP call that compared its code with the stored code of identifier i
OtpCompared(i) ==
  /\ OtpVerified(i)
  /\ last'.res.message \in {"OTP verified successfully", "Invalid OTP"}

C29_AtMostThreeGuesses ==
  [][\A i \in Identifiers :
       /\ i \in DOMAIN otpStorage'
            => (/\ otpStorage'[i].attempts <= OtpMaxAttempts
                /\ otpStorage'[i].maxAttempts = OtpMaxAttempts)
       /\ OtpCompared(i)
            => (/\ i \in DOMAIN otpStorage
                /\ otpStorage[i].attempts < OtpMaxAttempts
                /\ i \in DOMAIN otpStorage'
                     => otpStorage'[i] = [otpStorage[i] EXCEPT !.attempts = @ + 1])
       /\ (last'.op = "generateAndStoreOTP" /\ last'.g.identifier = i /\ budget' = budget - 1)
            => otpStorage'[i].attempts = 0
       /\ (i \in DOMAIN otpStorage /\ i \in DOMAIN otpStorage' /\ otpStorage'[i] # otpStorage[i])
            => \/ OtpCompared(i)
               \/ (last'.op = "generateAndStoreOTP" /\ last'.g.identifier = i /\ budget' = budget - 1)]_vars

\* C29 witness: the third code compared with a stored code was wrong, and the record is stored
\* with three attempts counted
C29_Witness ==
  /\ last.op = "verifyOTP" /\ last.res = OtpRes(FALSE, "Invalid OTP", 0)
  /\ last.g.identifier \in DOMAIN otpStorage
  /\ otpStorage[last.g.identifier].attempts = OtpMaxAttempts

\* C30: when the cleanup timer of an OTP fires while a record of a later OTP for the same
\* identifier is stored and unexpired, the storage is left as it is: the record keeps its
\* code and its attempts; the timer deletes a record of its identifier only
C30_OldTimerKeepsNewOtp ==
  [][\A tm \in timers :
       OtpCleanup(tm)
       => (/\ (tm.identifier \in DOMAIN otpStorage /\ otpStorage[tm.identifier].expirationTime >= now)
                => otpStorage' = otpStorage
           /\ \A i \in DOMAIN otpStorage \ {tm.identifier} :
                i \in DOMAIN otpStorage' /\ otpStorage'[i] = otpStorage[i])]_vars

\* C30 witness: a cleanup timer fired after its own OTP had expired and left an unexpired
\* record of a later OTP for its identifier stored
C30_Witness ==
  /\ last.op = "cleanup"
  /\ last.g.identifier \in DOMAIN otpStorage
  /\ otpStorage[last.g.identifier].expirationTime >= now
  /\ \E tm \in timers : tm.identifier = last.g.identifier /\ tm.due > now

(* ------------------------------ token uniqueness ------------------------- *)

\* C25 (as stated): the refresh token a request is answered with was issued to the account
\* by no earlier call; a rotation stores another token than the one it removes; no token is
\* stored twice in the refreshTokens of an account
C25_FreshRefreshToken ==
  [][/\ \A s \in Slots :
          (reqs[s].pc # "idle" /\ reqs'[s].pc = "idle" /\ last'.res.refreshToken # NoTok)
          => (/\ <<last'.res.refreshToken.id, last'.res.refreshToken.iat>> \notin issued
              /\ reqs[s].op = "refresh" => last'.res.refreshToken # reqs[s].arg.token)
     /\ \A i \in 1..Len(users') :
          \A j, k \in 1..Len(users'[i].refreshTokens) :
            j # k => users'[i].refreshTokens[j] # users'[i].refreshTokens[k]]_vars

(* ------------------------------ lock and counter ------------------------- *)

\* C26 (as stated): an account whose lockUntil is in the future has a stored loginAttempts of
\* at least five
C26_LockedHasFiveAttempts ==
  \A i \in Ids :
    (users[i].lockUntil # NoTime /\ users[i].lockUntil > now)
    => users[i].loginAttempts >= LockThreshold

\* C27 (as stated): when no login is in flight, an account with a stored loginAttempts of at
\* least five has lockUntil set
C27_FiveAttemptsLocked ==
  \A i \in Ids :
    ((\A s \in Slots : reqs[s].op # "login") /\ users[i].loginAttempts >= LockThreshold)
    => users[i].lockUntil # NoTime

(* ------------------------------ status ----------------------------------- *)

InitStatus == InitStore /\ budget = MaxStatusRequests

\* the clock stands still: no duration of the program bears on the status
NextStatus ==
  \/ \E s \in Slots : RegisterFind(s, "a@x.com", "017", "pw1")
  \/ \E s \in Slots : RegisterCreate(s)
  \/ \E s \in Slots : RegisterSave(s)
  \/ \E id \in Ids, st \in {"active", "suspended"} : SetStatus(id, st)
  \/ \E s \in Slots : LoginFind(s, "a@x.com", NoStr, "pw1")
  \/ \E s \in Slots : LoginCheck(s)
  \/ \E s \in Slots, tok \in PresentedTokens({"refresh"}) : RefreshFind(s, tok)
  \/ \E s \in Slots : RefreshRotate(s)
  \/ \E s \in Slots, tok \in PresentedTokens({"access"}) : ChangePasswordProtect(s, tok, "pw1", "pw2")
  \/ \E s \in Slots : ProtectFind(s)
  \/ \E s \in Slots : ChangePasswordFind(s)
  \/ \E s \in Slots : ChangePasswordSave(s)
  \/ \E s \in Slots : ChangePasswordIssue(s)
  \/ \E s \in Slots : ForgotPasswordFind(s, "a@x.com")
  \/ \E s \in Slots, rt \in ResetTokens : ForgotPasswordSave(s, rt)
  \/ \E s \in Slots : ForgotPasswordSent(s)
  \/ \E s \in Slots, rt \in ResetTokens : ResetPasswordFind(s, rt, "pw2", "pw2")
  \/ \E s \in Slots : ResetPasswordSave(s)
  \/ \E s \in Slots : ResetPasswordIssue(s)

SpecStatus == InitStatus /\ [][NextStatus]_vars

\* C28 (as stated): a Login, RefreshToken, ResetPassword or ChangePassword is answered with a
\* new token pair, its refresh token stored for the account, only for an account whose status
\* is active, when the request read the account or when the tokens are issued
C28_TokensOnlyForActive ==
  [][\A s \in Slots :
       (/\ reqs[s].op \in {"login", "refresh", "resetPassword", "changePassword"}
        /\ reqs[s].pc # "idle" /\ reqs'[s].pc = "idle"
        /\ last'.res.refreshToken # NoTok)
       => \/ users[reqs[s].uid].status = "active"
          \/ reqs[s].doc.status = "active"]_vars

====
